---- MODULE Spec2Model ----
(***************************************************************************)
(* Model of query-crates-index (src/main.rs): get_crate_list and the       *)
(* functions it calls -- list_registry_crates, find_crates,                *)
(* load_cached_crate_list, save_crate_list.                                *)
(*                                                                         *)
(* The file system (WalkDir's entries, the cache file) and the cargo       *)
(* registry source (Source::query_vec) are the environment: what they      *)
(* answer is chosen nondeterministically when the program asks.            *)
(***************************************************************************)
EXTENDS Integers, Sequences, FiniteSets

\* ---------------------------------------------------------------- bounds
MaxDepth   == 2      \* deepest directory entry below the root
MaxEntries == 5      \* entries WalkDir delivers in one walk
MaxVers    == 2      \* summaries one query_vec answer holds
MaxRuns    == 2      \* runs of the program (calls of get_crate_list)

\* File and directory names, in lexicographic order.
NameList == <<".git", "ab">>
Names    == {NameList[i] : i \in 1..Len(NameList)}
Versions == 1..2
Cksums   == 1..2

\* main.rs:46  f.depth() > 1
DepthThreshold == 1

VARIABLES
    pc,           \* position inside get_crate_list
    run,          \* number of the current run
    hit,          \* cache_filename.exists() as seen at main.rs:208
    cache,        \* the cache file on disk
    walked,       \* entries the WalkDir iterator has delivered so far
    yielded,      \* paths for which the filter_map closure returned Some
    crate_names,  \* Vec<String> being collected by list_registry_crates
    pending,      \* crate names find_crates has not queried yet
    reg,          \* answers of source.query_vec seen so far, per name
    summaries,    \* stream of summaries flat_map hands to collect()
    crates,       \* the CrateSet (BTreeSet<Crate>)
    stdout,       \* lines printed
    calls,        \* functions get_crate_list has invoked in this run
    result        \* what get_crate_list returned

vars == <<pc, run, hit, cache, walked, yielded, crate_names, pending, reg,
          summaries, crates, stdout, calls, result>>

\* ------------------------------------------------------------ data types
SeqsUpTo(S, n) == UNION {[1..k -> S] : k \in 0..n}

\* A directory entry is named by its path below the root; <<>> is the root.
Paths == SeqsUpTo(Names, MaxDepth)

\* What WalkDir delivers for an entry: Ok(entry) of some file type, or Err.
Kinds == {"file", "dir", "symlink", "err"}

Depth(p) == Len(p)

Parent(p) == SubSeq(p, 1, Len(p) - 1)

FileName(p) == p[Len(p)]

\* p lies inside a directory named .git
UnderGit(p) == \E i \in 1..(Len(p) - 1) : p[i] = ".git"

\* Summary: package id (name, version) plus the rest of the record.
Summary(n, v, c) == [name |-> n, vers |-> v, cksum |-> c]

Records == [vers : Versions, cksum : Cksums]

\* Result<Vec<Summary>> of source.query_vec, before the name is filled in.
QueryResults == [ok : {FALSE}, recs : {<<>>}]
                \cup [ok : {TRUE}, recs : SeqsUpTo(Records, MaxVers)]

NotQueried == [queried |-> FALSE, ok |-> FALSE, recs |-> <<>>]

NoFile == [exists |-> FALSE, complete |-> FALSE, data |-> <<>>]

NoResult == [tag |-> "None", val |-> {}]

Ok(set) == [tag |-> "Ok", val |-> set]

Err == [tag |-> "Err", val |-> {}]

Panic == [tag |-> "Panic", val |-> {}]

\* ------------------------------------------------------- pure functions
\* main.rs:44-51  the filter_map closure of list_registry_crates, for an
\* entry WalkDir delivered as kind k at path p: Some(file name) or None.
IsYielded(p, k) == k = "file" /\ Depth(p) > DepthThreshold

\* PackageId of a summary; the registry source is the same for all of them.
PackageId(s) == <<s.name, s.vers>>

NameRank(n) == CHOOSE i \in 1..Len(NameList) : NameList[i] = n

\* main.rs:129-133  Ord for Crate compares the package ids only.
CrateLess(a, b) ==
    \/ NameRank(PackageId(a)[1]) < NameRank(PackageId(b)[1])
    \/ PackageId(a)[1] = PackageId(b)[1] /\ PackageId(a)[2] < PackageId(b)[2]

CrateSameKey(a, b) == ~CrateLess(a, b) /\ ~CrateLess(b, a)

\* BTreeSet::insert: an element whose key is already present is not added.
Insert(set, s) ==
    IF \E t \in set : CrateSameKey(t, s) THEN set ELSE set \cup {s}

\* main.rs:181  collect() into the CrateSet, one insert per summary.
RECURSIVE Collect(_, _)
Collect(set, seq) ==
    IF seq = <<>> THEN set
    ELSE Collect(Insert(set, Head(seq)), Tail(seq))

\* main.rs:181  flat_map: the summaries of one successful query.
SummariesOf(name, recs) ==
    [i \in 1..Len(recs) |-> Summary(name, recs[i].vers, recs[i].cksum)]

\* main.rs:198  serialize_into writes the set's elements in Ord order.
RECURSIVE Serialize(_)
Serialize(set) ==
    IF set = {} THEN <<>>
    ELSE LET m == CHOOSE x \in set : \A y \in set \ {x} : CrateLess(x, y)
         IN  <<m>> \o Serialize(set \ {m})

\* A get_crate_list that drops the `?` after save_crate_list.
ReturnAfterSave_IgnoreError(saved, set) == Ok(set)

\* main.rs:212-213  save_crate_list(..)?; Ok(crates)
ReturnAfterSave(saved, set) == IF saved THEN Ok(set) ELSE Err

\* ----------------------------------------------------------------- Init
Init ==
    /\ pc = "start"
    /\ run = 1
    /\ hit = FALSE
    /\ cache = NoFile
    /\ walked = {}
    /\ yielded = {}
    /\ crate_names = <<>>
    /\ pending = <<>>
    /\ reg = [n \in Names |-> NotQueried]
    /\ summaries = <<>>
    /\ crates = {}
    /\ stdout = <<>>
    /\ calls = <<>>
    /\ result = NoResult

\* -------------------------------------------------------------- actions
\* main.rs:203-210  get_crate_list up to the branch on the cache file;
\* main.rs:187-191  load_cached_crate_list is unimplemented!() and panics.
GetCrateList ==
    /\ pc = "start"
    /\ hit' = cache.exists
    /\ IF cache.exists
       THEN /\ calls' = Append(calls, "load_cached_crate_list")
            /\ result' = Panic
            /\ pc' = "done"
       ELSE /\ calls' = Append(calls, "find_crates")
            /\ result' = result
            /\ pc' = "walk"
    /\ UNCHANGED <<run, cache, walked, yielded, crate_names, pending, reg,
                   summaries, crates, stdout>>

WalkedPaths == {e.path : e \in walked}

\* main.rs:42-51  WalkDir delivers its next entry and the closure filters it.
WalkEntry ==
    /\ pc = "walk"
    /\ Cardinality(walked) < MaxEntries
    /\ \E p \in Paths, k \in Kinds :
        /\ p \notin WalkedPaths
        /\ \/ p = <<>> /\ walked = {}
           \/ p # <<>> /\ [path |-> Parent(p), kind |-> "dir"] \in walked
        /\ walked' = walked \cup {[path |-> p, kind |-> k]}
        /\ IF IsYielded(p, k)
           THEN /\ yielded' = yielded \cup {p}
                /\ crate_names' = Append(crate_names, FileName(p))
           ELSE UNCHANGED <<yielded, crate_names>>
    /\ UNCHANGED <<pc, run, hit, cache, pending, reg, summaries, crates,
                   stdout, calls, result>>

\* main.rs:52, 171-176  the walk is exhausted and dropped; the collected
\* names are printed and moved into find_crates' iterator.
WalkEnd ==
    /\ pc = "walk"
    /\ walked # {}
    /\ stdout' = Append(stdout, [msg |-> "Found", n |-> Len(crate_names)])
    /\ pending' = crate_names
    /\ crate_names' = <<>>
    /\ walked' = {}
    /\ yielded' = {}
    /\ pc' = "query"
    /\ UNCHANGED <<run, hit, cache, reg, summaries, crates, calls, result>>

\* main.rs:176-181  one crate name: query_vec, .ok() drops an Err, the
\* summaries of an Ok go into the set.
QueryCrate ==
    /\ pc = "query"
    /\ pending # <<>>
    /\ LET name == Head(pending) IN
       \E r \in QueryResults :
        /\ reg[name].queried => (r.ok = reg[name].ok /\ r.recs = reg[name].recs)
        /\ reg' = [reg EXCEPT ![name] =
                      [queried |-> TRUE, ok |-> r.ok, recs |-> r.recs]]
        /\ IF r.ok
           THEN /\ summaries' = summaries \o SummariesOf(name, r.recs)
                /\ crates' = Collect(crates, SummariesOf(name, r.recs))
           ELSE UNCHANGED <<summaries, crates>>
    /\ pending' = Tail(pending)
    /\ UNCHANGED <<pc, run, hit, cache, walked, yielded, crate_names,
                   stdout, calls, result>>

\* main.rs:182-184, 211-212  find_crates returns Ok(crates); get_crate_list
\* goes on to save_crate_list.
FindDone ==
    /\ pc = "query"
    /\ pending = <<>>
    /\ stdout' = Append(stdout, [msg |-> "Loaded", n |-> Cardinality(crates)])
    /\ calls' = Append(calls, "save_crate_list")
    /\ pc' = "create"
    /\ UNCHANGED <<run, hit, cache, walked, yielded, crate_names, pending,
                   reg, summaries, crates, result>>

\* main.rs:197  File::create(path)?
SaveCreate ==
    /\ pc = "create"
    /\ \E created \in BOOLEAN :
        IF created
        THEN /\ cache' = [exists |-> TRUE, complete |-> FALSE, data |-> <<>>]
             /\ pc' = "write"
             /\ result' = result
        ELSE /\ cache' = cache
             /\ pc' = "done"
             /\ result' = ReturnAfterSave(FALSE, crates)
    /\ UNCHANGED <<run, hit, walked, yielded, crate_names, pending, reg,
                   summaries, crates, stdout, calls>>

\* main.rs:198-200, 212-213  serialize_into(..)?, the last println, and the
\* return of get_crate_list.
SaveWrite ==
    /\ pc = "write"
    /\ \E written \in BOOLEAN :
        /\ IF written
           THEN /\ cache' = [exists |-> TRUE, complete |-> TRUE,
                             data |-> Serialize(crates)]
                /\ stdout' = Append(stdout, [msg |-> "Saved", n |-> 0])
           ELSE UNCHANGED <<cache, stdout>>
        /\ result' = ReturnAfterSave(written, crates)
    /\ pc' = "done"
    /\ UNCHANGED <<run, hit, walked, yielded, crate_names, pending, reg,
                   summaries, crates, calls>>

\* main.rs:217-234  the program is run again; only the cache file persists.
NewRun ==
    /\ pc = "done"
    /\ run < MaxRuns
    /\ run' = run + 1
    /\ pc' = "start"
    /\ hit' = FALSE
    /\ walked' = {}
    /\ yielded' = {}
    /\ crate_names' = <<>>
    /\ pending' = <<>>
    /\ reg' = [n \in Names |-> NotQueried]
    /\ summaries' = <<>>
    /\ crates' = {}
    /\ stdout' = <<>>
    /\ calls' = <<>>
    /\ result' = NoResult
    /\ UNCHANGED cache

Next ==
    \/ GetCrateList
    \/ WalkEntry
    \/ WalkEnd
    \/ QueryCrate
    \/ FindDone
    \/ SaveCreate
    \/ SaveWrite
    \/ NewRun

Spec == Init /\ [][Next]_vars

TypeOK ==
    /\ pc \in {"start", "walk", "query", "create", "write", "done"}
    /\ run \in 1..MaxRuns
    /\ hit \in BOOLEAN
    /\ walked \subseteq [path : Paths, kind : Kinds]
    /\ yielded \subseteq Paths
    /\ crate_names \in Seq(Names)
    /\ result.tag \in {"None", "Ok", "Err", "Panic"}

\* ---------------------------------------------------------------- claims
\* Two summaries with the same (name, version) went into collect().
HasDuplicate ==
    \E i, j \in DOMAIN summaries :
        i # j /\ PackageId(summaries[i]) = PackageId(summaries[j])

\* A line of output other than the three progress lines of main.rs.
HasDiagnostic ==
    \E i \in DOMAIN stdout : stdout[i].msg \notin {"Found", "Loaded", "Saved"}

\* Some crate's query_vec failed in this run.
HasFailedQuery == \E n \in Names : reg[n].queried /\ ~reg[n].ok

\* C3: when the records fed into the index hold two Version Records with
\* the same (name, version), building the index ends in an error and the
\* duplicate is never collapsed into one entry of a returned collection.
C3_DuplicateIsIntegrityError ==
    HasDuplicate => /\ result.tag # "Ok"
                    /\ pc \notin {"create", "write"}

\* C4: every path the walker yields is a regular file at depth greater
\* than 1 and not inside a directory named .git, and every delivered
\* regular file at depth greater than 1 outside .git is yielded.
C4_WalkerContract ==
    /\ \A p \in yielded :
        /\ [path |-> p, kind |-> "file"] \in walked
        /\ Depth(p) > 1
        /\ ~UnderGit(p)
    /\ \A e \in walked :
        (e.kind = "file" /\ Depth(e.path) > 1 /\ ~UnderGit(e.path))
            => e.path \in yielded

\* C8: when loading a package file fails, none of its records enters the
\* index and the failure is not silently dropped: the load returns an
\* error or a diagnostic is printed.
C8_FailureNotDropped ==
    /\ \A s \in crates : reg[s.name].ok
    /\ (HasFailedQuery /\ pc \in {"create", "write", "done"})
            => (result.tag = "Err" \/ HasDiagnostic)
    /\ (HasFailedQuery /\ result.tag = "Ok") => HasDiagnostic

\* C9: a later call of get_crate_list that finds the cache file a former
\* call saved returns a crate set equal to the one that was saved.
C9_CacheRoundTrip ==
    (pc = "done" /\ hit /\ cache.complete)
        => (result.tag = "Ok" /\ Serialize(result.val) = cache.data)

\* C10: with no cache file, find_crates and then save_crate_list run before
\* anything is returned; Ok(crates) is returned only if both succeeded, and
\* a failed save returns the error instead of the crate set.  With a cache
\* file, find_crates and save_crate_list are never invoked.
C10_LoadThenSave ==
    /\ hit => calls = <<"load_cached_crate_list">>
    /\ (pc # "start" /\ ~hit) =>
            calls \in {<<"find_crates">>, <<"find_crates", "save_crate_list">>}
    /\ result.tag = "Ok" =>
            /\ ~hit
            /\ calls = <<"find_crates", "save_crate_list">>
            /\ pending = <<>>
            /\ result.val = crates
            /\ cache.complete
            /\ cache.data = Serialize(crates)
    /\ (pc = "done" /\ ~hit /\ ~cache.complete) => result = Err

\* A second run that found no cache file (the first run's save failed in
\* File::create), loaded a non-empty index, saved it and returned it.
C10_Witness ==
    /\ run = 2
    /\ pc = "done"
    /\ ~hit
    /\ result.tag = "Ok"
    /\ Cardinality(result.val) >= 2
====
